---- MODULE Spec2Model ----
(***************************************************************************)
(* Model of the DIESEL dashboard core: the emission calculator and the     *)
(* mint tracker of dashboard/src/services/mint-tracker.ts and the          *)
(* distribution metrics of dashboard/src/services/distribution-metrics.ts. *)
(*                                                                         *)
(* The services are stateless: a state of the model is one call, its       *)
(* arguments, what the external RPC answered and what the call returned.   *)
(* From "idle" a caller starts any operation; Return goes back to "idle".  *)
(* This is the specification Spec.  The block monitor of the API server,   *)
(* api/src/services/websocket.ts, keeps lastBlockHeight between its polls; *)
(* its polls and their pending RPCs are the specification SpecMonitor.     *)
(*                                                                         *)
(* Amounts are bigint in the source.  TLC has 32-bit integers, so the      *)
(* configuration DIESEL_CONSTANTS is reduced, keeping every order relation *)
(* between the constants that the code's branches depend on:               *)
(*   heights are in units of 10,000 blocks                                 *)
(*     GENESIS_BLOCK 800000 -> 80, LAUNCH_BLOCK 880000 -> 88,              *)
(*     HALVING_INTERVAL 210000 -> 21;                                      *)
(*   INITIAL_REWARD 5,000,000,000 = 5^10 * 2^9 -> 20 = 5 * 2^2 (some even  *)
(*     halvings, then an odd reward, then 0);                              *)
(*   MAX_SUPPLY 156,250,000,000,000 = 31250 * INITIAL_REWARD               *)
(*     -> 3 * INITIAL_REWARD = 60 (31250 blocks are 3.125 units): as in    *)
(*     the source, MAX_SUPPLY is a whole number of epoch-0 rewards and is  *)
(*     less than the emission of the premine (LAUNCH - GENESIS blocks)     *)
(*     and so less than the emission of epoch 0.                           *)
(***************************************************************************)
EXTENDS Integers, Sequences, FiniteSets, TLC

GENESIS_BLOCK == 80
LAUNCH_BLOCK == 88
HALVING_INTERVAL == 21
INITIAL_REWARD == 20
MAX_SUPPLY == 60

\* Heights a caller may pass: 0 .. MaxHeight covers three epoch lengths below
\* genesis and every epoch with a non-zero reward, FarHeights lie 100 halving
\* epochs past genesis (verifyEmissionIntegrity's farFutureBlock).
MaxHeight == 210
Heights == 0 .. MaxHeight
FarHeights == { GENESIS_BLOCK + HALVING_INTERVAL * 100 + d : d \in {-1, 0, 1} }
\* heights below 0, which a bigint argument can be
NegativeHeights == { -1, -HALVING_INTERVAL, -GENESIS_BLOCK - 1 }
CallHeights == Heights \cup FarHeights \cup NegativeHeights

Min(a, b) == IF a < b THEN a ELSE b
Max(a, b) == IF a > b THEN a ELSE b

\* bigint `/`: the quotient truncated toward zero (b > 0)
TruncDiv(a, b) == IF a >= 0 THEN a \div b ELSE -((-a) \div b)

\* bigint `a >> n` for a >= 0: floor(a / 2^n), one bit at a time; a negative
\* count shifts left
RECURSIVE Shr(_, _)
Shr(a, n) ==
  IF n = 0 \/ a = 0 THEN a
  ELSE IF n > 0 THEN Shr(a \div 2, n - 1)
  ELSE Shr(a * 2, n + 1)

(***************************************************************************)
(* DieselEmissionCalculator                                                *)
(***************************************************************************)
\* variant: the reward without the genesis check
calculateBlockRewardNoGuard(blockHeight) ==
  Shr(INITIAL_REWARD, TruncDiv(blockHeight - GENESIS_BLOCK, HALVING_INTERVAL))

\* variant: the epoch taken with % instead of /
calculateBlockRewardModulo(blockHeight) ==
  IF blockHeight < GENESIS_BLOCK THEN 0
  ELSE Shr(INITIAL_REWARD, (blockHeight - GENESIS_BLOCK) % HALVING_INTERVAL)

calculateBlockReward(blockHeight) ==
  IF blockHeight < GENESIS_BLOCK THEN 0
  ELSE LET blocksSinceGenesis == blockHeight - GENESIS_BLOCK
           halvingEpoch == TruncDiv(blocksSinceGenesis, HALVING_INTERVAL)
       IN  Shr(INITIAL_REWARD, halvingEpoch)

\* variant: the loop without the clamp to MAX_SUPPLY
RECURSIVE CumulativeLoopNoClamp(_, _, _, _)
CumulativeLoopNoClamp(currentBlock, totalEmission, blockHeight, iterations) ==
  IF ~(blockHeight <= currentBlock /\ totalEmission < MAX_SUPPLY)
  THEN [total |-> totalEmission, iterations |-> iterations, clamped |-> FALSE]
  ELSE LET epochStart == blockHeight
           epochNumber == TruncDiv(blockHeight - GENESIS_BLOCK, HALVING_INTERVAL)
           nextHalving == GENESIS_BLOCK + (epochNumber + 1) * HALVING_INTERVAL
           epochEnd == IF nextHalving < currentBlock THEN nextHalving
                       ELSE currentBlock + 1
           blocksInEpoch == epochEnd - epochStart
           rewardPerBlock == Shr(INITIAL_REWARD, epochNumber)
           epochEmission == blocksInEpoch * rewardPerBlock
       IN  CumulativeLoopNoClamp(currentBlock, totalEmission + epochEmission,
                                 epochEnd, iterations + 1)

\* variant: the loop counting one block too few per pass
RECURSIVE CumulativeLoopShort(_, _, _, _)
CumulativeLoopShort(currentBlock, totalEmission, blockHeight, iterations) ==
  IF ~(blockHeight <= currentBlock /\ totalEmission < MAX_SUPPLY)
  THEN [total |-> totalEmission, iterations |-> iterations, clamped |-> FALSE]
  ELSE LET epochStart == blockHeight
           epochNumber == TruncDiv(blockHeight - GENESIS_BLOCK, HALVING_INTERVAL)
           nextHalving == GENESIS_BLOCK + (epochNumber + 1) * HALVING_INTERVAL
           epochEnd == IF nextHalving < currentBlock THEN nextHalving
                       ELSE currentBlock + 1
           blocksInEpoch == epochEnd - epochStart - 1
           rewardPerBlock == Shr(INITIAL_REWARD, epochNumber)
           epochEmission == blocksInEpoch * rewardPerBlock
           newTotal == totalEmission + epochEmission
       IN  IF newTotal > MAX_SUPPLY
           THEN [total |-> MAX_SUPPLY, iterations |-> iterations + 1, clamped |-> TRUE]
           ELSE CumulativeLoopShort(currentBlock, newTotal, epochEnd,
                                    iterations + 1)

\* the while loop of calculateCumulativeEmission; iterations counts its passes,
\* clamped tells whether it ended in the clamp branch
RECURSIVE CumulativeLoop(_, _, _, _)
CumulativeLoop(currentBlock, totalEmission, blockHeight, iterations) ==
  IF ~(blockHeight <= currentBlock /\ totalEmission < MAX_SUPPLY)
  THEN [total |-> totalEmission, iterations |-> iterations, clamped |-> FALSE]
  ELSE LET epochStart == blockHeight
           epochNumber == TruncDiv(blockHeight - GENESIS_BLOCK, HALVING_INTERVAL)
           nextHalving == GENESIS_BLOCK + (epochNumber + 1) * HALVING_INTERVAL
           epochEnd == IF nextHalving < currentBlock THEN nextHalving
                       ELSE currentBlock + 1
           blocksInEpoch == epochEnd - epochStart
           rewardPerBlock == Shr(INITIAL_REWARD, epochNumber)
           epochEmission == blocksInEpoch * rewardPerBlock
           newTotal == totalEmission + epochEmission
       IN  IF newTotal > MAX_SUPPLY
           THEN [total |-> MAX_SUPPLY, iterations |-> iterations + 1, clamped |-> TRUE]
           ELSE CumulativeLoop(currentBlock, newTotal, epochEnd, iterations + 1)

\* [total, iterations, clamped]: the value returned, the passes of the loop
\* and whether the branch `totalEmission > MAX_SUPPLY` was taken
calculateCumulativeEmission(currentBlock) ==
  IF currentBlock < GENESIS_BLOCK
  THEN [total |-> 0, iterations |-> 0, clamped |-> FALSE]
  ELSE CumulativeLoop(currentBlock, 0, GENESIS_BLOCK, 0)

\* variant: the launch height counted in
calculatePremineInclusive == (LAUNCH_BLOCK - GENESIS_BLOCK + 1) * INITIAL_REWARD

calculatePremine ==
  LET premineBlocks == LAUNCH_BLOCK - GENESIS_BLOCK
  IN  premineBlocks * INITIAL_REWARD

\* variant: the for loop of getEmissionSchedule with `break` after the push
RECURSIVE EmissionScheduleLoopLateBreak(_, _, _, _, _)
EmissionScheduleLoopLateBreak(maxEpochs, epoch, cumulativeEmission, schedule, passes) ==
  IF ~(epoch < maxEpochs) THEN [entries |-> schedule, passes |-> passes]
  ELSE LET blockReward == Shr(INITIAL_REWARD, epoch)
           totalEmission == HALVING_INTERVAL * blockReward
           pushed == Append(schedule,
                       [epoch |-> epoch,
                        startBlock |-> GENESIS_BLOCK + epoch * HALVING_INTERVAL,
                        endBlock |-> GENESIS_BLOCK + (epoch + 1) * HALVING_INTERVAL - 1,
                        blockReward |-> blockReward,
                        totalEmission |-> totalEmission,
                        cumulativeEmission |-> cumulativeEmission + totalEmission])
       IN  IF blockReward = 0
           THEN [entries |-> pushed, passes |-> passes + 1]
           ELSE EmissionScheduleLoopLateBreak(maxEpochs, epoch + 1,
                  cumulativeEmission + totalEmission, pushed, passes + 1)

\* the for loop of getEmissionSchedule; passes counts the bodies executed
RECURSIVE EmissionScheduleLoop(_, _, _, _, _)
EmissionScheduleLoop(maxEpochs, epoch, cumulativeEmission, schedule, passes) ==
  IF ~(epoch < maxEpochs) THEN [entries |-> schedule, passes |-> passes]
  ELSE LET startBlock == GENESIS_BLOCK + epoch * HALVING_INTERVAL
           endBlock == GENESIS_BLOCK + (epoch + 1) * HALVING_INTERVAL - 1
           blockReward == Shr(INITIAL_REWARD, epoch)
           totalEmission == HALVING_INTERVAL * blockReward
           newCumulative == cumulativeEmission + totalEmission
       IN  IF blockReward = 0
           THEN [entries |-> schedule, passes |-> passes + 1]
           ELSE EmissionScheduleLoop(maxEpochs, epoch + 1, newCumulative,
                  Append(schedule,
                         [epoch |-> epoch,
                          startBlock |-> startBlock,
                          endBlock |-> endBlock,
                          blockReward |-> blockReward,
                          totalEmission |-> totalEmission,
                          cumulativeEmission |-> newCumulative]),
                  passes + 1)

getEmissionSchedule(maxEpochs) == EmissionScheduleLoop(maxEpochs, 0, 0, <<>>, 0)

\* the maxEpochs a caller passes: 0 .. MaxEpochsArg, the default 32, and a
\* number far above the number of epochs
MaxEpochsArg == 8
DEFAULT_MAX_EPOCHS == 32
EpochArgs == (0 .. MaxEpochsArg) \cup {DEFAULT_MAX_EPOCHS, 1000 * DEFAULT_MAX_EPOCHS}

\* Number(x) of a bigint x: the nearest double, which is x itself below 2^53,
\* and every integer of this model is
BigIntToNumber(x) == x

\* variant: the start of the epoch after next
getNextHalvingBlockSkip(currentBlock) ==
  IF currentBlock < GENESIS_BLOCK THEN GENESIS_BLOCK + HALVING_INTERVAL
  ELSE GENESIS_BLOCK
         + (TruncDiv(currentBlock - GENESIS_BLOCK, HALVING_INTERVAL) + 2)
             * HALVING_INTERVAL

getNextHalvingBlock(currentBlock) ==
  IF currentBlock < GENESIS_BLOCK THEN GENESIS_BLOCK + HALVING_INTERVAL
  ELSE LET blocksSinceGenesis == currentBlock - GENESIS_BLOCK
           currentEpoch == TruncDiv(blocksSinceGenesis, HALVING_INTERVAL)
           nextEpoch == currentEpoch + 1
       IN  GENESIS_BLOCK + nextEpoch * HALVING_INTERVAL

getBlocksUntilHalving(currentBlock) ==
  LET nextHalving == getNextHalvingBlock(currentBlock)
  IN  BigIntToNumber(nextHalving - currentBlock)

\* the for loop of getHalvingEvents: the event is pushed before the test of
\* newReward.  The date of an event, taken from Date.now(), is not kept.
RECURSIVE HalvingEventsLoop(_, _, _, _)
HalvingEventsLoop(currentBlock, maxHalvings, epoch, events) ==
  IF ~(epoch < maxHalvings) THEN events
  ELSE LET blockHeight ==
             BigIntToNumber(GENESIS_BLOCK + epoch * HALVING_INTERVAL)
           previousReward == IF epoch = 0 THEN INITIAL_REWARD
                             ELSE Shr(INITIAL_REWARD, epoch - 1)
           newReward == Shr(INITIAL_REWARD, epoch)
           pushed == Append(events,
                       [epoch |-> epoch,
                        blockHeight |-> blockHeight,
                        previousReward |-> previousReward,
                        newReward |-> newReward,
                        isCompleted |-> currentBlock >= blockHeight])
       IN  IF newReward = 0 THEN pushed
           ELSE HalvingEventsLoop(currentBlock, maxHalvings, epoch + 1, pushed)

getHalvingEvents(currentBlock, maxHalvings) ==
  HalvingEventsLoop(currentBlock, maxHalvings, 0, <<>>)

\* the arguments of getHalvingEvents: a height next to the start of an epoch
\* or 0, and 0 .. MaxEpochsArg halvings or the default 10
DEFAULT_MAX_HALVINGS == 10
HalvingArgs == (0 .. MaxEpochsArg) \cup {DEFAULT_MAX_HALVINGS}
EventHeights ==
  {0} \cup { h \in Heights :
               (h - GENESIS_BLOCK) % HALVING_INTERVAL \in {0, 1, HALVING_INTERVAL - 1} }

(***************************************************************************)
(* MintTracker                                                             *)
(***************************************************************************)
\* What the RPC can answer to protorunesByHeight: it throws ("error"), it
\* answers without a result array ("malformed"), or it answers with entries.
\* An entry carries the alkane it mints, the minter's address ("" when the
\* field is missing) and the amount.  Timestamps and transaction ids are not
\* read by any computation and are left out.
MaxClaimants == 2
OTHER_ALKANE == 2
TREASURY == "treasury"
Addresses == {TREASURY, "a", ""}
Amounts == {1, 30}
Entries == [alkane_id : {GENESIS_BLOCK, OTHER_ALKANE}, address : Addresses,
            amount : Amounts]
EntryLists == UNION { [1 .. n -> Entries] : n \in 0 .. MaxClaimants }
Responses ==
  [status : {"error", "malformed"}, result : {<<>>}]
    \cup [status : {"ok"}, result : EntryLists]

\* the heights the tracker is asked about: the first and the last height of
\* every epoch, below genesis too, and height 0
TrackerHeights ==
  {0} \cup { h \in Heights :
               (h - GENESIS_BLOCK) % HALVING_INTERVAL \in {0, HALVING_INTERVAL - 1} }

\* getParticipationTrends is started at the last two heights below genesis and
\* below the first halving and scans up to MaxRange heights; the answers it
\* gets carry at most two entries, whose amounts it never reads
MaxRange == 2
TrendStarts ==
  { GENESIS_BLOCK - 2, GENESIS_BLOCK + HALVING_INTERVAL - 2 }
TrendResponses ==
  { r \in Responses :
      /\ Len(r.result) <= 2
      /\ \A i \in 1 .. Len(r.result) :
           r.result[i].amount = 1 /\ r.result[i].address # TREASURY }

\* VITE_OYL_TREASURY_ADDRESS, '' when the variable is not set
TreasuryConfigs == {TREASURY, ""}

Claimant(mint) ==
  [address |-> IF mint.address = "" THEN "unknown" ELSE mint.address,
   amount |-> mint.amount]

IsDieselMint(entry) == entry.alkane_id = GENESIS_BLOCK

\* the claimant list for a response; a throwing RPC is caught and gives []
getBlockClaimants(response) ==
  IF response.status # "ok" THEN <<>>
  ELSE LET dieselMints == SelectSeq(response.result, IsDieselMint)
       IN  [i \in 1 .. Len(dieselMints) |-> Claimant(dieselMints[i])]

\* variant: the split rounded up
calculateRewardPerClaimantUp(blockReward, claimantCount) ==
  IF claimantCount = 0 THEN 0
  ELSE TruncDiv(blockReward + claimantCount - 1, claimantCount)

calculateRewardPerClaimant(blockReward, claimantCount) ==
  IF claimantCount = 0 THEN 0
  ELSE TruncDiv(blockReward, claimantCount)

\* variant: the count of the latest height
updatePeakParticipantsLatest(peakParticipants, participantCount) ==
  participantCount

\* peakParticipants = Math.max(peakParticipants, participantCount)
updatePeakParticipants(peakParticipants, participantCount) ==
  Max(peakParticipants, participantCount)

\* variant: the minimum updated for heights without claimants too
updateMinParticipantsAlways(minParticipants, participantCount) ==
  Min(minParticipants, participantCount)

\* `if (participantCount > 0) minParticipants = Math.min(...)`
updateMinParticipants(minParticipants, participantCount) ==
  IF participantCount > 0
  THEN Min(minParticipants, participantCount)
  ELSE minParticipants

\* the block reward as the tracker computes it inline, without the
\* calculator's genesis check
trackerBlockReward(blockHeight) ==
  LET blocksSinceGenesis == blockHeight - GENESIS_BLOCK
      halvingEpoch == TruncDiv(blocksSinceGenesis, HALVING_INTERVAL)
  IN  Shr(INITIAL_REWARD, halvingEpoch)

\* the ParticipationData pushed by getParticipationTrends and returned by
\* getCurrentBlockParticipation
ParticipationData(blockHeight, claimants) ==
  LET blockReward == trackerBlockReward(blockHeight)
      participantCount == Len(claimants)
      rewardPerClaimant ==
        IF participantCount > 0
        THEN calculateRewardPerClaimant(blockReward, participantCount)
        ELSE 0
  IN  [kind |-> "snapshot",
       blockHeight |-> blockHeight,
       totalClaimants |-> participantCount,
       rewardPerClaimant |-> rewardPerClaimant,
       totalDistributed |-> blockReward]

NullParticipation ==
  [kind |-> "null", blockHeight |-> -1, totalClaimants |-> 0,
   rewardPerClaimant |-> 0, totalDistributed |-> 0]

\* Array.prototype.find: the index of the first claimant of that address, 0
\* when there is none
FindClaim(claimants, address) ==
  LET hits == { i \in 1 .. Len(claimants) : claimants[i].address = address }
  IN  IF hits = {} THEN 0 ELSE CHOOSE i \in hits : \A j \in hits : i <= j

treasuryParticipation(blockHeight, claimants, treasuryAddress) ==
  LET i == FindClaim(claimants, treasuryAddress)
  IN  IF i # 0
      THEN LET blockReward == trackerBlockReward(blockHeight)
               maxTreasuryReward == TruncDiv(blockReward, 2)
           IN  IF claimants[i].amount > maxTreasuryReward
               THEN maxTreasuryReward
               ELSE claimants[i].amount
      ELSE 0

(***************************************************************************)
(* DistributionMetrics                                                     *)
(***************************************************************************)
\* The balance lists a caller passes: every list of up to MaxLen balances,
\* and lists of up to MaxUniformLen identical balances.
MaxLen == 4
MaxUniformLen == 12
BalanceValues == {0, 1, 2, 3, 97, 100}
BalanceLists ==
  UNION { [1 .. n -> BalanceValues] : n \in 0 .. MaxLen }
    \cup { [i \in 1 .. n |-> x] : n \in 1 .. MaxUniformLen, x \in BalanceValues }

\* reduce((sum, balance) => sum + balance, 0n)
RECURSIVE SumSeq(_)
SumSeq(seq) == IF seq = <<>> THEN 0 ELSE seq[1] + SumSeq(Tail(seq))

\* [...balances].sort(ascending comparator): the balances in ascending order
RECURSIVE InsertAscending(_, _)
InsertAscending(x, sorted) ==
  IF sorted = <<>> THEN <<x>>
  ELSE IF x <= sorted[1] THEN <<x>> \o sorted
  ELSE <<sorted[1]>> \o InsertAscending(x, Tail(sorted))

RECURSIVE SortAscending(_)
SortAscending(seq) ==
  IF seq = <<>> THEN <<>>
  ELSE InsertAscending(seq[1], SortAscending(Tail(seq)))

\* the loop of calculateGiniCoefficient: sum of (i + 1) * sortedBalances[i]
RECURSIVE WeightedSum(_, _)
WeightedSum(sortedBalances, i) ==
  IF i > Len(sortedBalances) THEN 0
  ELSE i * sortedBalances[i] + WeightedSum(sortedBalances, i + 1)

\* The value returned is a double.  With n = balances.length it is kept as
\* the fraction num / den, den = 10000 * n: giniRatio is an integer number of
\* ten-thousandths, adjustment is (n + 1) / n, and their difference and the
\* bounds 0 and 1 are whole multiples of 1 / (10000 * n).  The rounding of the
\* double operations (relative error about 1e-16) is not represented.
GiniValue(sortedBalances, ratioTenThousandths) ==
  LET n == Len(sortedBalances)
      gini == ratioTenThousandths * n - 10000 * (n + 1)
  IN  [num |-> Max(0, Min(10000 * n, gini)), den |-> 10000 * n]

ZeroGini == [num |-> 0, den |-> 1]

\* variant: the weighted sum over the balances as passed, not sorted
calculateGiniCoefficientUnsorted(balances) ==
  IF Len(balances) <= 1 \/ SumSeq(balances) = 0 THEN ZeroGini
  ELSE GiniValue(balances,
                 TruncDiv(2 * WeightedSum(balances, 1) * 10000,
                          Len(balances) * SumSeq(balances)))

\* variant: the ratio rounded up to the next ten-thousandth
calculateGiniCoefficientRoundUp(balances) ==
  IF Len(balances) <= 1 \/ SumSeq(balances) = 0 THEN ZeroGini
  ELSE LET sorted == SortAscending(balances)
           d == Len(sorted) * SumSeq(sorted)
       IN  GiniValue(sorted,
                     TruncDiv(2 * WeightedSum(sorted, 1) * 10000 + d - 1, d))

calculateGiniCoefficient(balances) ==
  IF Len(balances) = 0 THEN ZeroGini
  ELSE IF Len(balances) = 1 THEN ZeroGini
  ELSE LET sortedBalances == SortAscending(balances)
           total == SumSeq(sortedBalances)
       IN  IF total = 0 THEN ZeroGini
           ELSE LET weightedSum == WeightedSum(sortedBalances, 1)
                    n == Len(sortedBalances)
                    numerator == 2 * weightedSum
                    denominator == n * total
                IN  GiniValue(sortedBalances,
                              TruncDiv(numerator * 10000, denominator))

\* HolderBalance records: address, balance and percentage.  percentage is a
\* double with two decimals in the source; it is kept as the integer number
\* of hundredths of a percent, the bigint quotient it is computed from.
HolderRecord(address, balance) ==
  [address |-> address, balance |-> balance, percentage |-> 0]

\* the holder lists a caller passes: every short list over BalanceValues, and
\* for each length up to MaxHolderCount a list of rising balances, of equal
\* balances, of one large holder among small ones, and of empty balances.
\* Addresses are the positions in the caller's list.
MaxHolderCount == 101
MaxSmallHolders == 3
Patterns == {"rising", "equal", "rich", "empty"}
PatternBalance(pattern, i, n) ==
  CASE pattern = "rising" -> i
    [] pattern = "equal" -> 5
    [] pattern = "rich" -> IF i = n THEN 1000 ELSE 1
    [] OTHER -> 0
HolderLists ==
  { [i \in 1 .. n |-> HolderRecord(i, PatternBalance(p, i, n))] :
      n \in 0 .. MaxHolderCount, p \in Patterns }
    \cup UNION { { [i \in 1 .. n |-> HolderRecord(i, f[i])] :
                     f \in [1 .. n -> BalanceValues] } :
                 n \in 0 .. MaxSmallHolders }

\* [...balances].sort(descending comparator): Array.prototype.sort is stable,
\* so the place of a holder in the sorted copy is one more than the number of
\* holders with a larger balance, or the same balance and an earlier position
SortDescending(holders) ==
  LET n == Len(holders)
      place == SubSeq([i \in 1 .. n |->
                  1 + Cardinality({ j \in 1 .. n :
                        \/ holders[j].balance > holders[i].balance
                        \/ holders[j].balance = holders[i].balance /\ j < i })],
                      1, n)
  IN  SubSeq([k \in 1 .. n |-> holders[CHOOSE i \in 1 .. n : place[i] = k]],
             1, n)

\* the sum of the balances of holders[from .. to]; the additions are grouped
\* in halves, which gives the sum that a left-to-right pass gives
RECURSIVE SumRange(_, _, _)
SumRange(holders, from, to) ==
  IF from > to THEN 0
  ELSE IF from = to THEN holders[from].balance
  ELSE LET mid == (from + to) \div 2
       IN  SumRange(holders, from, mid) + SumRange(holders, mid + 1, to)

\* reduce((sum, h) => sum + h.balance, 0n)
SumBalances(holders) == SumRange(holders, 1, Len(holders))

\* Math.ceil(n * 0.01) and Math.ceil(n * 0.1): for the lengths an array can
\* have in practice the double product rounds to the exact ceiling of n / 100
\* and of n / 10
CeilFraction(n, parts) == (n + parts - 1) \div parts

\* Number(balance * 10000n / totalSupply) / 100, in hundredths of a percent
holderPercentage(balance, totalSupply) ==
  IF totalSupply > 0 THEN TruncDiv(balance * 10000, totalSupply) ELSE 0

\* variant: the percentages written to a copy, the caller's records kept
holdersAfterCategorizeCopy(balances) == balances

\* the forEach over `sorted` assigns holder.percentage; `sorted` is a shallow
\* copy, its elements are the caller's own records: the caller's list after
\* the call, in the caller's order
holdersAfterCategorize(balances) ==
  LET totalSupply == SumBalances(balances)
  IN  SubSeq([i \in 1 .. Len(balances) |->
                [balances[i] EXCEPT
                   !.percentage =
                     holderPercentage(balances[i].balance, totalSupply)]],
             1, Len(balances))

\* variant: the slice without its first element
SliceGap(seq, from, to) == SubSeq(seq, from + 2, Min(to, Len(seq)))

\* starting after `from` elements and ending after `to`: slice(from, to)
Slice(seq, from, to) == SubSeq(seq, from + 1, Min(to, Len(seq)))

\* variant: the bracket sizes rounded down
categorizeHoldersFloor(balances) ==
  LET sorted == SortDescending(holdersAfterCategorize(balances))
      top1PercentIndex == Len(sorted) \div 100
      top10PercentIndex == Len(sorted) \div 10
  IN  [whales |-> Slice(sorted, 0, top1PercentIndex),
       dolphins |-> Slice(sorted, top1PercentIndex, top10PercentIndex),
       shrimp |-> Slice(sorted, top10PercentIndex, Len(sorted)),
       totalSupply |-> SumBalances(sorted), holderCount |-> Len(sorted)]

categorizeHolders(balances) ==
  IF Len(balances) = 0
  THEN [whales |-> <<>>, dolphins |-> <<>>, shrimp |-> <<>>,
        totalSupply |-> 0, holderCount |-> 0]
  ELSE LET sorted == SortDescending(holdersAfterCategorize(balances))
           top1PercentIndex == CeilFraction(Len(sorted), 100)
           top10PercentIndex == CeilFraction(Len(sorted), 10)
       IN  [whales |-> Slice(sorted, 0, top1PercentIndex),
            dolphins |-> Slice(sorted, top1PercentIndex, top10PercentIndex),
            shrimp |-> Slice(sorted, top10PercentIndex, Len(sorted)),
       totalSupply |-> SumBalances(sorted), holderCount |-> Len(sorted)]

\* variant: the loop ends as soon as the threshold is reached
NakamotoLoopReached(sorted, threshold) ==
  LET over == { k \in 1 .. Len(sorted) : SumRange(sorted, 1, k) >= threshold }
  IN  IF over = {} THEN Len(sorted)
      ELSE CHOOSE k \in over : \A m \in over : k <= m

\* `for (const holder of sorted)` of calculateConcentrationMetrics: holders
\* are added and counted until the running balance is above the threshold;
\* the count when the loop ends is the first k whose first k balances sum to
\* more than the threshold, and the length of the list when there is none
NakamotoLoop(sorted, threshold) ==
  LET over == { k \in 1 .. Len(sorted) : SumRange(sorted, 1, k) > threshold }
  IN  IF over = {} THEN Len(sorted)
      ELSE CHOOSE k \in over : \A m \in over : k <= m

\* the result of calculateConcentrationMetrics, the shares in hundredths of a
\* percent; top1Summed and top10Summed are the lengths of the slices whose
\* balances the two shares sum
ZeroConcentration ==
  [top1PercentShare |-> 0, top10PercentShare |-> 0, nakamotoCoefficient |-> 0,
   top1Summed |-> 0, top10Summed |-> 0]

\* variant: the bracket sizes rounded down, at least one
calculateConcentrationMetricsFloor(balances) ==
  IF Len(balances) = 0 \/ SumBalances(balances) = 0 THEN ZeroConcentration
  ELSE LET sorted == SortDescending(balances)
           totalSupply == SumBalances(sorted)
           top1 == Slice(sorted, 0, Max(1, Len(sorted) \div 100))
           top10 == Slice(sorted, 0, Max(1, Len(sorted) \div 10))
       IN  [top1PercentShare |-> TruncDiv(SumBalances(top1) * 10000, totalSupply),
            top10PercentShare |-> TruncDiv(SumBalances(top10) * 10000, totalSupply),
            nakamotoCoefficient |-> NakamotoLoop(sorted, TruncDiv(totalSupply, 2)),
            top1Summed |-> Len(top1),
            top10Summed |-> Len(top10)]

calculateConcentrationMetrics(balances) ==
  IF Len(balances) = 0 THEN ZeroConcentration
  ELSE LET sorted == SortDescending(balances)
           totalSupply == SumBalances(sorted)
           top1PercentCount == Max(1, CeilFraction(Len(sorted), 100))
           top10PercentCount == Max(1, CeilFraction(Len(sorted), 10))
           top1 == Slice(sorted, 0, top1PercentCount)
           top10 == Slice(sorted, 0, top10PercentCount)
       IN  IF totalSupply = 0 THEN ZeroConcentration
           ELSE [top1PercentShare |->
                   TruncDiv(SumBalances(top1) * 10000, totalSupply),
                 top10PercentShare |->
                   TruncDiv(SumBalances(top10) * 10000, totalSupply),
                 nakamotoCoefficient |->
                   NakamotoLoop(sorted, TruncDiv(totalSupply, 2)),
                 top1Summed |-> Len(top1),
                 top10Summed |-> Len(top10)]

\* the addresses of a block's minters, repeated ones too, and the set of
\* earlier participants that the callers of analyzeParticipantHistory share
Minters == {"a", "b"}
MaxAddressList == 3
MaxCalls == 2
AddressLists == UNION { [1 .. n -> Minters] : n \in 0 .. MaxAddressList }

\* variant: a first-time address is not added to the set
RECURSIVE AnalyzeLoopNoAdd(_, _, _, _, _)
AnalyzeLoopNoAdd(addresses, i, historicalParticipants, firstTimeMinters, veteranMinters) ==
  IF i > Len(addresses)
  THEN [firstTimeMinters |-> firstTimeMinters,
        veteranMinters |-> veteranMinters,
        historicalParticipants |-> historicalParticipants]
  ELSE IF addresses[i] \in historicalParticipants
  THEN AnalyzeLoopNoAdd(addresses, i + 1, historicalParticipants,
                        firstTimeMinters, Append(veteranMinters, addresses[i]))
  ELSE AnalyzeLoopNoAdd(addresses, i + 1, historicalParticipants,
                        Append(firstTimeMinters, addresses[i]), veteranMinters)

\* `for (const address of addresses)`: the two lists and the caller's set
\* when the loop has ended
RECURSIVE AnalyzeLoop(_, _, _, _, _)
AnalyzeLoop(addresses, i, historicalParticipants, firstTimeMinters, veteranMinters) ==
  IF i > Len(addresses)
  THEN [firstTimeMinters |-> firstTimeMinters,
        veteranMinters |-> veteranMinters,
        historicalParticipants |-> historicalParticipants]
  ELSE IF addresses[i] \in historicalParticipants
  THEN AnalyzeLoop(addresses, i + 1, historicalParticipants,
                   firstTimeMinters, Append(veteranMinters, addresses[i]))
  ELSE AnalyzeLoop(addresses, i + 1,
                   historicalParticipants \cup {addresses[i]},
                   Append(firstTimeMinters, addresses[i]), veteranMinters)

\* the ParticipantAnalysis returned, newParticipantRate as rateNum / rateDen,
\* and the caller's set after the call
analyzeParticipantHistory(addresses, historicalParticipants) ==
  LET loop == AnalyzeLoop(addresses, 1, historicalParticipants, <<>>, <<>>)
      totalParticipants == Len(addresses)
  IN  [firstTimeMinters |-> loop.firstTimeMinters,
       veteranMinters |-> loop.veteranMinters,
       totalParticipants |-> totalParticipants,
       rateNum |-> IF totalParticipants > 0
                   THEN Len(loop.firstTimeMinters) * 100 ELSE 0,
       rateDen |-> IF totalParticipants > 0 THEN totalParticipants ELSE 1,
       historicalParticipants |-> loop.historicalParticipants]

NoAnalysis ==
  [firstTimeMinters |-> <<>>, veteranMinters |-> <<>>, totalParticipants |-> 0,
   rateNum |-> 0, rateDen |-> 1]

\* Gini values are doubles in [0, 1]; a history holds them as whole numbers of
\* thousandths, GiniScale to the unit.  Sums, quotients and products of the
\* source are kept exact; the rounding of its double operations is not
\* represented.
GiniScale == 1000
GiniValues == {0, 1, 500, 503, GiniScale}
MaxHistory == 3
GiniHistories == UNION { [1 .. n -> GiniValues] : n \in 0 .. MaxHistory }

\* windowSize: 0, 1, 2 or the default
DEFAULT_WINDOW_SIZE == 10
WindowSizes == {0, 1, 2, DEFAULT_WINDOW_SIZE}

\* periods: 0, 1 or the default
DEFAULT_PERIODS == 5
PeriodArgs == {0, 1, DEFAULT_PERIODS}

\* slice(-windowSize): the last windowSize values, all of them when there are
\* fewer; slice(-0) is slice(0), the whole list
RecentValues(values, windowSize) ==
  IF windowSize = 0 \/ windowSize >= Len(values) THEN values
  ELSE SubSeq(values, Len(values) - windowSize + 1, Len(values))

\* variant: no test for the empty history; 0 / 0 is NaN (den = 0)
calculateMovingAverageGiniNoGuard(historicalGiniValues, windowSize) ==
  LET recentValues == RecentValues(historicalGiniValues, windowSize)
  IN  [num |-> SumSeq(recentValues), den |-> Len(recentValues)]

\* the average num / den, in thousandths; den = 0 stands for NaN
calculateMovingAverageGini(historicalGiniValues, windowSize) ==
  IF Len(historicalGiniValues) = 0 THEN [num |-> 0, den |-> 1]
  ELSE LET recentValues == RecentValues(historicalGiniValues, windowSize)
       IN  [num |-> SumSeq(recentValues), den |-> Len(recentValues)]

Abs(x) == IF x < 0 THEN -x ELSE x

\* slope = slopeNum / slopeDen thousandths per index, as the source's
\* (n * sumXY - sumX * sumY) / (n * sumX2 - sumX * sumX)
RegressionSums(historicalGiniValues) ==
  LET n == Len(historicalGiniValues)
      indices == SubSeq([i \in 1 .. n |-> i - 1], 1, n)
      sumX == SumSeq(indices)
      sumY == SumSeq(historicalGiniValues)
      sumXY == SumSeq(SubSeq([i \in 1 .. n |->
                                indices[i] * historicalGiniValues[i]], 1, n))
      sumX2 == SumSeq(SubSeq([i \in 1 .. n |-> indices[i] * indices[i]], 1, n))
  IN  [n |-> n, sumX |-> sumX, sumY |-> sumY,
       slopeNum |-> n * sumXY - sumX * sumY,
       slopeDen |-> n * sumX2 - sumX * sumX]

\* variant: a slope of exactly 0.001 or -0.001 counts as stable
trendOfSlopeInclusive(slopeNum, slopeDen) ==
  IF Abs(slopeNum) * 1000 <= GiniScale * slopeDen THEN "stable"
  ELSE IF slopeNum < 0 THEN "improving"
  ELSE "worsening"

\* Math.abs(slope) < 0.001, then the sign of the slope (slopeDen > 0)
trendOfSlope(slopeNum, slopeDen) ==
  IF Abs(slopeNum) * 1000 < GiniScale * slopeDen THEN "stable"
  ELSE IF slopeNum < 0 THEN "improving"
  ELSE "worsening"

\* the result: trend, and predictedGini = num / den thousandths
predictDistributionTrend(historicalGiniValues, periods) ==
  IF Len(historicalGiniValues) < 2
  THEN [trend |-> "stable",
        \* historicalGiniValues[0] || 0.5: undefined and 0 are falsy
        num |-> IF Len(historicalGiniValues) = 0 \/ historicalGiniValues[1] = 0
                THEN GiniScale \div 2
                ELSE historicalGiniValues[1],
        den |-> 1]
  ELSE LET r == RegressionSums(historicalGiniValues)
           \* slope * (n + periods - 1) + (sumY - slope * sumX) / n
           den == r.n * r.slopeDen
           num == r.slopeNum * (r.n + periods - 1) * r.n
                    + r.sumY * r.slopeDen - r.slopeNum * r.sumX
       IN  [trend |-> trendOfSlope(r.slopeNum, r.slopeDen),
            num |-> Max(0, Min(GiniScale * den, num)),
            den |-> den]

\* The block monitor of the API WebSocket server.  setInterval starts a poll
\* every 10 seconds and an RPC may take up to 30 seconds, so polls overlap.
\* MaxPolls polls are started in all; the node reports heights up to
\* MaxChainHeight, in any order.
MaxPolls == 3
MaxChainHeight == 3

\* what callRPC('getblockchaininfo') resolves to: null (the request failed),
\* an object without a usable blocks field, or an object with blocks
InfoAnswers ==
  [kind : {"failed", "empty"}, blocks : {0}]
    \cup [kind : {"info"}, blocks : 0 .. MaxChainHeight]

\* BigInt(blockInfo?.blocks || 0)
currentHeightOf(blockInfo) ==
  IF blockInfo.kind = "info" THEN blockInfo.blocks ELSE 0

\* variant: a height equal to the last one counts as new
isNewBlockOrSame(currentHeight, last) == currentHeight >= last

\* `currentHeight > lastBlockHeight`
isNewBlock(currentHeight, last) == currentHeight > last

\* what callRPC('protorunesbyheight') resolves to: the number of DIESEL mints
\* found, 0 also when the request failed
MintAnswers == {0, 1, 2}

(***************************************************************************)
(* State                                                                   *)
(***************************************************************************)
VARIABLES
  op,          \* the operation that was called, "idle" between calls
  pc,          \* "idle", "loop" (inside getParticipationTrends) or "done"
  height,      \* the height argument; the loop variable of the trends loop
  reward,      \* calculateBlockReward's result
  cumulative,  \* calculateCumulativeEmission's result [total, iterations,
               \*   clamped]
  prevHeight,  \* the height of the caller's preceding
  prevTotal,   \*   calculateCumulativeEmission call and its result (-1: none)
  prevReward,  \* the result of the caller's preceding calculateBlockReward
               \*   call (-1: none), its height being prevHeight
  premine,     \* calculatePremine's result
  maxEpochs,   \* getEmissionSchedule's argument
  schedule,    \*   and its result [entries, passes]
  nextHalving, \* getNextHalvingBlock's result
  blocksUntil, \* getBlocksUntilHalving's result
  maxHalvings, \* getHalvingEvents' second argument (the first is height)
  events,      \*   and its result
  responses,   \* what protorunesByHeight answered during the call, in order
  treasuryAddress,  \* TREASURY_ADDRESS read by getTreasuryParticipation
  participation,    \* getCurrentBlockParticipation's result
  treasury,         \* getTreasuryParticipation's result
  startBlock,       \* getParticipationTrends: its arguments,
  endBlock,
  blocks,           \*   the snapshots pushed so far,
  uniqueAddresses,  \*   the addresses seen so far,
  totalParticipants, peakParticipants, minParticipants,  \* its statistics
  trend,            \*   and the TrendData it returns
  balances,         \* the balance list passed to DistributionMetrics
  gini,             \* calculateGiniCoefficient's result
  holdersIn,        \* the holder list a caller passed, as it was at the call,
  holders,          \*   and the same list after the call returned
  categories,       \* categorizeHolders' result, with `returned`
  concentration,    \* calculateConcentrationMetrics' result
  giniHistory,      \* the Gini history passed to the two operations below
  windowSize,       \* calculateMovingAverageGini's window
  movingAverage,    \*   and its result
  periods,          \* predictDistributionTrend's periods
  prediction,       \*   and its result
  addresses,        \* analyzeParticipantHistory's address list,
  historicalParticipants,  \* the caller's set, as it is after the call
  historicalBefore,        \*   and as it was when the call was made,
  analysis,         \* the ParticipantAnalysis returned,
  reportedFirst,    \* the firstTimeMinters of all calls on this set so far
  calls,            \*   and the number of these calls
  lastBlockHeight,  \* the block monitor: the module variable lastBlockHeight,
  polls,            \*   the number of polls started,
  pendingInfo,      \*   the polls waiting for getblockchaininfo,
  pendingMints,     \*   the heights of the polls waiting for protorunesbyheight,
  lastAnswer,       \*   the answer the latest getblockchaininfo resolved to,
  newBlocks,        \*   the heights of the new_block messages, in order,
  newMints          \*   the new_mint messages [blockHeight, totalClaimants]

halvingVars == <<nextHalving, blocksUntil, maxHalvings, events>>
emissionVars == <<reward, cumulative, prevHeight, prevTotal, prevReward,
                  premine, maxEpochs, schedule, halvingVars>>
loopVars == <<startBlock, endBlock, blocks, uniqueAddresses, totalParticipants,
              peakParticipants, minParticipants>>
trackerVars == <<responses, treasuryAddress, participation, treasury, loopVars,
                 trend>>
trendVars == <<giniHistory, windowSize, movingAverage, periods, prediction>>
historyVars == <<addresses, historicalParticipants, historicalBefore, analysis,
                 reportedFirst, calls>>
metricsVars == <<balances, gini, holdersIn, holders, categories, concentration,
                 trendVars, historyVars>>
dashboardVars == <<op, pc, height, emissionVars, trackerVars, metricsVars>>
monitorVars == <<lastBlockHeight, polls, pendingInfo, pendingMints, lastAnswer,
                 newBlocks, newMints>>
vars == <<dashboardVars, monitorVars>>

NoCumulative == [total |-> 0, iterations |-> 0, clamped |-> FALSE]
NoSchedule == [entries |-> <<>>, passes |-> 0]
NoAnswer == [kind |-> "none", blocks |-> 0]
NoPrediction == [trend |-> "stable", num |-> 0, den |-> 1]
NoCategories ==
  [returned |-> FALSE, whales |-> <<>>, dolphins |-> <<>>, shrimp |-> <<>>,
   totalSupply |-> 0, holderCount |-> 0]

\* Number.MAX_SAFE_INTEGER, the start value of minParticipants (2^53 - 1 in
\* the source; here the largest integer TLC represents)
MAX_SAFE_INTEGER == 2147483647

\* averageParticipants is a quotient of two numbers: kept as num / den
NoTrend ==
  [returned |-> FALSE, averageNum |-> 0, averageDen |-> 1,
   peakParticipants |-> 0, minParticipants |-> 0, totalUniqueAddresses |-> 0]

Idle ==
  /\ op = "idle"
  /\ pc = "idle"
  /\ height = -1
  /\ reward = 0
  /\ cumulative = NoCumulative
  /\ prevHeight = -1
  /\ prevTotal = -1
  /\ prevReward = -1
  /\ premine = 0
  /\ maxEpochs = -1
  /\ schedule = NoSchedule
  /\ nextHalving = -1
  /\ blocksUntil = -1
  /\ maxHalvings = -1
  /\ events = <<>>
  /\ responses = <<>>
  /\ treasuryAddress = ""
  /\ participation = NullParticipation
  /\ treasury = 0
  /\ startBlock = -1
  /\ endBlock = -1
  /\ blocks = <<>>
  /\ uniqueAddresses = {}
  /\ totalParticipants = 0
  /\ peakParticipants = 0
  /\ minParticipants = MAX_SAFE_INTEGER
  /\ trend = NoTrend
  /\ balances = <<>>
  /\ gini = ZeroGini
  /\ holdersIn = <<>>
  /\ holders = <<>>
  /\ categories = NoCategories
  /\ concentration = ZeroConcentration
  /\ giniHistory = <<>>
  /\ windowSize = -1
  /\ movingAverage = ZeroGini
  /\ periods = -1
  /\ prediction = NoPrediction
  /\ addresses = <<>>
  /\ historicalParticipants = {}
  /\ historicalBefore = {}
  /\ analysis = NoAnalysis
  /\ reportedFirst = <<>>
  /\ calls = 0
  /\ lastBlockHeight = 0
  /\ polls = 0
  /\ pendingInfo = 0
  /\ pendingMints = {}
  /\ lastAnswer = NoAnswer
  /\ newBlocks = <<>>
  /\ newMints = {}

Init == Idle

\* a caller's first call, and a following call whose result it compares
\* with the first
CalculateBlockReward ==
  /\ \/ op = "idle"
     \/ op = "calculateBlockReward" /\ prevReward = -1
  /\ \E h \in CallHeights :
       /\ height' = h
       /\ reward' = calculateBlockReward(h)
  /\ op' = "calculateBlockReward"
  /\ pc' = "done"
  /\ prevHeight' = height
  /\ prevReward' = IF op = "idle" THEN -1 ELSE reward
  /\ UNCHANGED <<cumulative, prevTotal, premine, maxEpochs, schedule,
                 halvingVars, trackerVars, metricsVars>>
  /\ UNCHANGED monitorVars

\* a caller's first call, and a following call whose result it compares
\* with the first
CalculateCumulativeEmission ==
  /\ \/ op = "idle"
     \/ op = "calculateCumulativeEmission" /\ prevTotal = -1
  /\ \E h \in CallHeights :
       /\ height' = h
       /\ cumulative' = calculateCumulativeEmission(h)
  /\ op' = "calculateCumulativeEmission"
  /\ pc' = "done"
  /\ prevHeight' = height
  /\ prevTotal' = IF op = "idle" THEN -1 ELSE cumulative.total
  /\ UNCHANGED <<reward, prevReward, premine, maxEpochs, schedule,
                 halvingVars, trackerVars, metricsVars>>
  /\ UNCHANGED monitorVars

CalculatePremine ==
  /\ op = "idle"
  /\ premine' = calculatePremine
  /\ op' = "calculatePremine"
  /\ pc' = "done"
  /\ UNCHANGED <<height, reward, cumulative, prevHeight, prevTotal, prevReward,
                 maxEpochs, schedule, halvingVars, trackerVars, metricsVars>>
  /\ UNCHANGED monitorVars

GetEmissionSchedule ==
  /\ op = "idle"
  /\ \E m \in EpochArgs :
       /\ maxEpochs' = m
       /\ schedule' = getEmissionSchedule(m)
  /\ op' = "getEmissionSchedule"
  /\ pc' = "done"
  /\ UNCHANGED <<height, reward, cumulative, prevHeight, prevTotal, prevReward,
                 premine, halvingVars, trackerVars, metricsVars>>
  /\ UNCHANGED monitorVars

GetNextHalvingBlock ==
  /\ op = "idle"
  /\ \E h \in CallHeights :
       /\ height' = h
       /\ nextHalving' = getNextHalvingBlock(h)
  /\ op' = "getNextHalvingBlock"
  /\ pc' = "done"
  /\ UNCHANGED <<reward, cumulative, prevHeight, prevTotal, prevReward,
                 premine, maxEpochs, schedule, blocksUntil, maxHalvings,
                 events, trackerVars, metricsVars>>
  /\ UNCHANGED monitorVars

GetBlocksUntilHalving ==
  /\ op = "idle"
  /\ \E h \in CallHeights :
       /\ height' = h
       /\ blocksUntil' = getBlocksUntilHalving(h)
  /\ op' = "getBlocksUntilHalving"
  /\ pc' = "done"
  /\ UNCHANGED <<reward, cumulative, prevHeight, prevTotal, prevReward,
                 premine, maxEpochs, schedule, nextHalving, maxHalvings,
                 events, trackerVars, metricsVars>>
  /\ UNCHANGED monitorVars

GetHalvingEvents ==
  /\ op = "idle"
  /\ \E h \in EventHeights, m \in HalvingArgs :
       /\ height' = h
       /\ maxHalvings' = m
       /\ events' = getHalvingEvents(h, m)
  /\ op' = "getHalvingEvents"
  /\ pc' = "done"
  /\ UNCHANGED <<reward, cumulative, prevHeight, prevTotal, prevReward,
                 premine, maxEpochs, schedule, nextHalving, blocksUntil,
                 trackerVars, metricsVars>>
  /\ UNCHANGED monitorVars

\* getBlockchainInfo throws (null is returned), or reports the current height
\* (`blocks || 0`), and then the claimants of that height are looked up
GetCurrentBlockParticipation ==
  /\ op = "idle"
  /\ \/ /\ height' = -1
        /\ responses' = <<>>
        /\ participation' = NullParticipation
     \/ \E currentHeight \in TrackerHeights, response \in Responses :
          /\ height' = currentHeight
          /\ responses' = <<response>>
          /\ participation' =
               ParticipationData(currentHeight, getBlockClaimants(response))
  /\ op' = "getCurrentBlockParticipation"
  /\ pc' = "done"
  /\ UNCHANGED <<emissionVars, treasuryAddress, treasury, loopVars, trend,
                 metricsVars>>
  /\ UNCHANGED monitorVars

GetTreasuryParticipation ==
  /\ op = "idle"
  /\ \E blockHeight \in TrackerHeights, response \in Responses,
        address \in TreasuryConfigs :
       /\ height' = blockHeight
       /\ responses' = <<response>>
       /\ treasuryAddress' = address
       /\ treasury' =
            treasuryParticipation(blockHeight, getBlockClaimants(response),
                                  address)
  /\ op' = "getTreasuryParticipation"
  /\ pc' = "done"
  /\ UNCHANGED <<emissionVars, participation, loopVars, trend,
                 metricsVars>>
  /\ UNCHANGED monitorVars

\* getParticipationTrends(startBlock, endBlock): the statements before the loop
GetParticipationTrends ==
  /\ op = "idle"
  /\ \E s \in TrendStarts :
       \E e \in s - 1 .. s + MaxRange - 1 :
         /\ startBlock' = s
         /\ endBlock' = e
         /\ height' = s
  /\ op' = "getParticipationTrends"
  /\ pc' = "loop"
  /\ blocks' = <<>>
  /\ uniqueAddresses' = {}
  /\ totalParticipants' = 0
  /\ peakParticipants' = 0
  /\ minParticipants' = MAX_SAFE_INTEGER
  /\ UNCHANGED <<emissionVars, responses, treasuryAddress, participation,
                 treasury, trend, metricsVars>>
  /\ UNCHANGED monitorVars

\* one pass of the loop: the lookup of `height` is awaited, its snapshot is
\* pushed and the statistics are updated
TrendsLoop ==
  /\ op = "getParticipationTrends"
  /\ pc = "loop"
  /\ height <= endBlock
  /\ \E response \in TrendResponses :
       LET claimants == getBlockClaimants(response)
           participantCount == Len(claimants)
       IN  /\ responses' = Append(responses, response)
           /\ uniqueAddresses' =
                uniqueAddresses \cup { claimants[i].address : i \in 1 .. Len(claimants) }
           /\ blocks' = Append(blocks, ParticipationData(height, claimants))
           /\ totalParticipants' = totalParticipants + participantCount
           /\ peakParticipants' =
                updatePeakParticipants(peakParticipants, participantCount)
           /\ minParticipants' =
                updateMinParticipants(minParticipants, participantCount)
  /\ height' = height + 1
  /\ UNCHANGED <<op, pc, emissionVars, treasuryAddress, participation, treasury,
                 startBlock, endBlock, trend, metricsVars>>
  /\ UNCHANGED monitorVars

\* the statements after the loop
TrendsReturn ==
  /\ op = "getParticipationTrends"
  /\ pc = "loop"
  /\ height > endBlock
  /\ LET blockCount == endBlock - startBlock + 1
     IN  trend' =
           [returned |-> TRUE,
            averageNum |-> IF blockCount > 0 THEN totalParticipants ELSE 0,
            averageDen |-> IF blockCount > 0 THEN blockCount ELSE 1,
            peakParticipants |-> peakParticipants,
            minParticipants |->
              IF minParticipants = MAX_SAFE_INTEGER THEN 0 ELSE minParticipants,
            totalUniqueAddresses |-> Cardinality(uniqueAddresses)]
  /\ pc' = "done"
  /\ UNCHANGED <<op, height, emissionVars, responses, treasuryAddress,
                 participation, treasury, loopVars, metricsVars>>
  /\ UNCHANGED monitorVars

CalculateGiniCoefficient ==
  /\ op = "idle"
  /\ \E b \in BalanceLists :
       /\ balances' = b
       /\ gini' = calculateGiniCoefficient(b)
  /\ op' = "calculateGiniCoefficient"
  /\ pc' = "done"
  /\ UNCHANGED <<height, emissionVars, trackerVars, holdersIn, holders,
                 categories, concentration, trendVars, historyVars>>
  /\ UNCHANGED monitorVars

CategorizeHolders ==
  /\ op = "idle"
  /\ \E b \in HolderLists :
       LET result == categorizeHolders(b)
       IN  /\ holdersIn' = b
           /\ holders' = IF Len(b) = 0 THEN b ELSE holdersAfterCategorize(b)
           /\ categories' = [returned |-> TRUE, whales |-> result.whales,
                             dolphins |-> result.dolphins,
                             shrimp |-> result.shrimp,
                             totalSupply |-> result.totalSupply,
                             holderCount |-> result.holderCount]
  /\ op' = "categorizeHolders"
  /\ pc' = "done"
  /\ UNCHANGED <<height, emissionVars, trackerVars, balances, gini,
                 concentration, trendVars, historyVars>>
  /\ UNCHANGED monitorVars

\* called on a list of its own, or by a caller of categorizeHolders on the
\* list it passed there (useRealtimeData passes one array to both)
CalculateConcentrationMetrics ==
  /\ \/ /\ op = "idle"
        /\ \E b \in HolderLists :
             /\ holdersIn' = b
             /\ holders' = b
             /\ concentration' = calculateConcentrationMetrics(b)
     \/ /\ op = "categorizeHolders"
        /\ concentration' = calculateConcentrationMetrics(holders)
        /\ UNCHANGED <<holdersIn, holders>>
  /\ op' = "calculateConcentrationMetrics"
  /\ pc' = "done"
  /\ UNCHANGED <<height, emissionVars, trackerVars, balances, gini,
                 categories, trendVars, historyVars>>
  /\ UNCHANGED monitorVars

CalculateMovingAverageGini ==
  /\ op = "idle"
  /\ \E h \in GiniHistories, w \in WindowSizes :
       /\ giniHistory' = h
       /\ windowSize' = w
       /\ movingAverage' = calculateMovingAverageGini(h, w)
  /\ op' = "calculateMovingAverageGini"
  /\ pc' = "done"
  /\ UNCHANGED <<height, emissionVars, trackerVars, balances, gini, holdersIn,
                 holders, categories, concentration, periods, prediction,
                 historyVars>>
  /\ UNCHANGED monitorVars

PredictDistributionTrend ==
  /\ op = "idle"
  /\ \E h \in GiniHistories, p \in PeriodArgs :
       /\ giniHistory' = h
       /\ periods' = p
       /\ prediction' = predictDistributionTrend(h, p)
  /\ op' = "predictDistributionTrend"
  /\ pc' = "done"
  /\ UNCHANGED <<height, emissionVars, trackerVars, balances, gini, holdersIn,
                 holders, categories, concentration, windowSize,
                 movingAverage, historyVars>>
  /\ UNCHANGED monitorVars

\* a call with a caller's set, and a later call with the same set; the
\* function has no await, a call runs to its end before another starts
AnalyzeParticipantHistory ==
  /\ \/ op = "idle" /\ \E h \in SUBSET Minters : historicalBefore' = h
     \/ /\ op = "analyzeParticipantHistory"
        /\ calls < MaxCalls
        /\ historicalBefore' = historicalParticipants
  /\ \E a \in AddressLists :
       LET result == analyzeParticipantHistory(a, historicalBefore')
       IN  /\ addresses' = a
           /\ analysis' = [firstTimeMinters |-> result.firstTimeMinters,
                           veteranMinters |-> result.veteranMinters,
                           totalParticipants |-> result.totalParticipants,
                           rateNum |-> result.rateNum,
                           rateDen |-> result.rateDen]
           /\ historicalParticipants' = result.historicalParticipants
           /\ reportedFirst' = reportedFirst \o result.firstTimeMinters
  /\ calls' = calls + 1
  /\ op' = "analyzeParticipantHistory"
  /\ pc' = "done"
  /\ UNCHANGED <<height, emissionVars, trackerVars, balances, gini, holdersIn,
                 holders, categories, concentration, trendVars>>
  /\ UNCHANGED monitorVars

Return ==
  /\ pc = "done"
  /\ op' = "idle"
  /\ pc' = "idle"
  /\ height' = -1
  /\ reward' = 0
  /\ cumulative' = NoCumulative
  /\ prevHeight' = -1
  /\ prevTotal' = -1
  /\ prevReward' = -1
  /\ premine' = 0
  /\ maxEpochs' = -1
  /\ schedule' = NoSchedule
  /\ nextHalving' = -1
  /\ blocksUntil' = -1
  /\ maxHalvings' = -1
  /\ events' = <<>>
  /\ responses' = <<>>
  /\ treasuryAddress' = ""
  /\ participation' = NullParticipation
  /\ treasury' = 0
  /\ startBlock' = -1
  /\ endBlock' = -1
  /\ blocks' = <<>>
  /\ uniqueAddresses' = {}
  /\ totalParticipants' = 0
  /\ peakParticipants' = 0
  /\ minParticipants' = MAX_SAFE_INTEGER
  /\ trend' = NoTrend
  /\ balances' = <<>>
  /\ gini' = ZeroGini
  /\ holdersIn' = <<>>
  /\ holders' = <<>>
  /\ categories' = NoCategories
  /\ concentration' = ZeroConcentration
  /\ giniHistory' = <<>>
  /\ windowSize' = -1
  /\ movingAverage' = ZeroGini
  /\ periods' = -1
  /\ prediction' = NoPrediction
  /\ addresses' = <<>>
  /\ historicalParticipants' = {}
  /\ historicalBefore' = {}
  /\ analysis' = NoAnalysis
  /\ reportedFirst' = <<>>
  /\ calls' = 0
  /\ UNCHANGED monitorVars

Next ==
  \/ CalculateBlockReward
  \/ CalculateCumulativeEmission
  \/ CalculatePremine
  \/ GetEmissionSchedule
  \/ GetNextHalvingBlock
  \/ GetBlocksUntilHalving
  \/ GetHalvingEvents
  \/ GetCurrentBlockParticipation
  \/ GetTreasuryParticipation
  \/ GetParticipationTrends
  \/ TrendsLoop
  \/ TrendsReturn
  \/ CalculateGiniCoefficient
  \/ CategorizeHolders
  \/ CalculateConcentrationMetrics
  \/ CalculateMovingAverageGini
  \/ PredictDistributionTrend
  \/ AnalyzeParticipantHistory
  \/ Return

Spec == Init /\ [][Next]_vars

\* setInterval(monitorBlockchain, 10000): a poll starts and sends its request
MonitorBlockchain ==
  /\ polls < MaxPolls
  /\ polls' = polls + 1
  /\ pendingInfo' = pendingInfo + 1
  /\ UNCHANGED <<lastBlockHeight, pendingMints, lastAnswer, newBlocks, newMints,
                 dashboardVars>>

\* one of the pending getblockchaininfo requests resolves and its poll runs
\* up to its next await: the test of the height, the assignment and the
\* new_block broadcast, and the protorunesbyheight request
MonitorBlockInfo ==
  /\ pendingInfo > 0
  /\ pendingInfo' = pendingInfo - 1
  /\ \E blockInfo \in InfoAnswers :
       LET currentHeight == currentHeightOf(blockInfo)
       IN  /\ lastAnswer' = blockInfo
           /\ IF isNewBlock(currentHeight, lastBlockHeight)
              THEN /\ lastBlockHeight' = currentHeight
                   /\ newBlocks' = Append(newBlocks, currentHeight)
                   /\ pendingMints' = pendingMints \cup {currentHeight}
              ELSE UNCHANGED <<lastBlockHeight, newBlocks, pendingMints>>
  /\ UNCHANGED <<polls, newMints, dashboardVars>>

\* a pending protorunesbyheight request resolves: new_mint is broadcast when
\* DIESEL mints were found (the rewards in the message are not kept)
MonitorMints ==
  /\ \E h \in pendingMints, dieselMints \in MintAnswers :
       /\ pendingMints' = pendingMints \ {h}
       /\ newMints' = IF dieselMints > 0
                      THEN newMints \cup {[blockHeight |-> h,
                                           totalClaimants |-> dieselMints]}
                      ELSE newMints
  /\ UNCHANGED <<lastBlockHeight, polls, pendingInfo, lastAnswer, newBlocks,
                 dashboardVars>>

NextMonitor ==
  \/ MonitorBlockchain
  \/ MonitorBlockInfo
  \/ MonitorMints

SpecMonitor == Init /\ [][NextMonitor]_vars

(***************************************************************************)
(* Emission schedule properties                                            *)
(***************************************************************************)
\* floor(INITIAL_REWARD / 2^e); INITIAL_REWARD < 2^30
HalvedReward(e) == IF e > 30 THEN 0 ELSE INITIAL_REWARD \div (2 ^ e)

ScheduleReward(h) ==
  IF h < GENESIS_BLOCK THEN 0
  ELSE HalvedReward((h - GENESIS_BLOCK) \div HALVING_INTERVAL)

\* min(MAX_SUPPLY, acc + sum of ScheduleReward(j) for j = k..h): the terms
\* are not negative, so the sum is cut off once it has reached MAX_SUPPLY
RECURSIVE CappedRewardSum(_, _, _)
CappedRewardSum(k, h, acc) ==
  IF k > h \/ acc >= MAX_SUPPLY THEN Min(MAX_SUPPLY, acc)
  ELSE CappedRewardSum(k + 1, h, acc + ScheduleReward(k))

\* C1: calculateBlockReward(h) is 0 below genesis and floor(initialReward /
\* 2^e), e = floor((h - genesis) / halvingInterval), from genesis on; it is
\* initialReward at genesis and floor(initialReward / 2) one interval later.
C1_BlockReward ==
  op = "calculateBlockReward" =>
    /\ reward = ScheduleReward(height)
    /\ height = GENESIS_BLOCK => reward = INITIAL_REWARD
    /\ height = GENESIS_BLOCK + HALVING_INTERVAL => reward = INITIAL_REWARD \div 2

C1_Witness ==
  /\ op = "calculateBlockReward"
  /\ height = GENESIS_BLOCK + HALVING_INTERVAL
  /\ reward = 10

\* C2: calculateCumulativeEmission(h) is min(maxSupply, sum of the block
\* rewards of genesis..h) for h >= genesis, also at a halving height, and 0
\* below genesis.
C2_CumulativeIsCappedSum ==
  op = "calculateCumulativeEmission" =>
    cumulative.total = IF height < GENESIS_BLOCK THEN 0
                       ELSE CappedRewardSum(GENESIS_BLOCK, height, 0)

C2_Witness ==
  /\ op = "calculateCumulativeEmission"
  /\ height = GENESIS_BLOCK + HALVING_INTERVAL
  /\ cumulative.total = MAX_SUPPLY

\* C3: calculateCumulativeEmission is non-decreasing in height.
C3_CumulativeMonotone ==
  (op = "calculateCumulativeEmission" /\ prevTotal >= 0 /\ prevHeight <= height)
    => prevTotal <= cumulative.total

C3_Witness ==
  /\ op = "calculateCumulativeEmission"
  /\ prevHeight = GENESIS_BLOCK + HALVING_INTERVAL
  /\ height = prevHeight + 1
  /\ prevTotal > 0

\* C4: calculateCumulativeEmission(h) <= maxSupply at every height, also 100
\* halving epochs past genesis, and its loop ends: it makes at most one pass
\* per epoch from genesis to h.
C4_CumulativeBounded ==
  op = "calculateCumulativeEmission" =>
    /\ cumulative.total >= 0
    /\ cumulative.total <= MAX_SUPPLY
    /\ cumulative.iterations <=
         IF height < GENESIS_BLOCK THEN 0
         ELSE (height - GENESIS_BLOCK) \div HALVING_INTERVAL + 1

C4_Witness ==
  /\ op = "calculateCumulativeEmission"
  /\ height = GENESIS_BLOCK + HALVING_INTERVAL * 100
  /\ cumulative.total = MAX_SUPPLY

(***************************************************************************)
(* Participation tracker properties                                        *)
(***************************************************************************)
\* the snapshots the current call has produced, each with the RPC answer it
\* was computed from
Produced ==
  IF op = "getCurrentBlockParticipation" /\ participation.kind = "snapshot"
  THEN { [snapshot |-> participation, response |-> responses[1]] }
  ELSE IF op = "getParticipationTrends"
  THEN { [snapshot |-> blocks[i], response |-> responses[i]] :
           i \in 1 .. Len(blocks) }
  ELSE {}

\* the number of DIESEL mints an RPC answer lists
MintCount(response) ==
  Cardinality({ i \in 1 .. Len(response.result) :
                  response.result[i].alkane_id = GENESIS_BLOCK })

\* C5: a snapshot for k claimants has claimantCount k and rewardPerClaimant
\* floor(totalDistributed / k), 0 when k = 0; so rewardPerClaimant * k <=
\* totalDistributed, and the dust left over by the division is < k.
C5_EqualSplit ==
  \A p \in Produced :
    LET k == MintCount(p.response)
        s == p.snapshot
        dust == s.totalDistributed - s.rewardPerClaimant * k
    IN  /\ s.totalClaimants = k
        /\ s.rewardPerClaimant = IF k > 0 THEN s.totalDistributed \div k ELSE 0
        /\ s.rewardPerClaimant * k <= s.totalDistributed
        /\ k > 0 => dust >= 0 /\ dust < k

C5_Witness ==
  /\ op = "getCurrentBlockParticipation"
  /\ participation.kind = "snapshot"
  /\ participation.totalClaimants = 2
  /\ participation.totalDistributed = 5
  /\ participation.rewardPerClaimant = 2

\* C6: every snapshot of the tracker has totalDistributed equal to
\* calculateBlockReward of its height, below genesis too.
C6_TotalDistributedIsBlockReward ==
  \A p \in Produced :
    p.snapshot.totalDistributed = calculateBlockReward(p.snapshot.blockHeight)

\* the first amount the configured treasury address claims in an RPC answer,
\* -1 when it claims nothing ('' is no address: a mint without an address is
\* recorded as 'unknown')
TreasuryClaim(response, address) ==
  LET hits == { i \in 1 .. Len(response.result) :
                  /\ response.result[i].alkane_id = GENESIS_BLOCK
                  /\ response.result[i].address = address
                  /\ address # "" }
  IN  IF hits = {} THEN -1
      ELSE response.result[CHOOSE i \in hits : \A j \in hits : i <= j].amount

\* C7: getTreasuryParticipation(h) is min(the treasury's claim at h,
\* floor(blockReward(h) / 2)), 0 without a treasury claim, and never exceeds
\* half of blockReward(h).
C7_TreasuryCapped ==
  op = "getTreasuryParticipation" =>
    LET claim == TreasuryClaim(responses[1], treasuryAddress)
        blockReward == calculateBlockReward(height)
    IN  /\ treasury = IF claim = -1 THEN 0 ELSE Min(claim, blockReward \div 2)
        /\ 2 * treasury <= blockReward

\* C8: a height whose claimant lookup failed gets no snapshot (in particular
\* none with claimantCount 0): the failure is reported as such.
C8_LookupFailureSurfaced ==
  \A p \in Produced : p.response.status = "ok"

(***************************************************************************)
(* Distribution metrics properties                                         *)
(***************************************************************************)
\* Sum of i * x_i over the balances in ascending order, without sorting:
\* the place of balances[i] in that order is one more than the number of
\* smaller balances and of equal balances before it.
Place(b, i) ==
  1 + Cardinality({ j \in 1 .. Len(b) : b[j] < b[i] })
    + Cardinality({ j \in 1 .. i - 1 : b[j] = b[i] })

RECURSIVE PlaceWeightedSum(_, _)
PlaceWeightedSum(b, i) ==
  IF i > Len(b) THEN 0 ELSE Place(b, i) * b[i] + PlaceWeightedSum(b, i + 1)

\* the exact coefficient 2S / (nT) - (n + 1) / n as the fraction num / den,
\* brought into [0, 1]
ExactGini(b) ==
  LET n == Len(b)
      T == SumSeq(b)
      S == PlaceWeightedSum(b, 1)
  IN  [num |-> Max(0, Min(n * T, 2 * S - (n + 1) * T)), den |-> n * T]

\* the coefficient with 2S / (nT) cut to four decimal places
TruncatedGini(b) ==
  LET n == Len(b)
      T == SumSeq(b)
      S == PlaceWeightedSum(b, 1)
      k == (20000 * S) \div (n * T)
  IN  [num |-> Max(0, Min(10000 * n, k * n - 10000 * (n + 1))),
       den |-> 10000 * n]

GiniCase ==
  /\ op = "calculateGiniCoefficient"
  /\ Len(balances) >= 2
  /\ SumSeq(balances) > 0

\* C9 as claimed: for n >= 2 balances with a positive total the result is
\* max(0, min(1, 2S / (nT) - (n + 1) / n)), S and T exact, and lies in [0, 1].
C9_GiniExactFormula ==
  GiniCase =>
    LET e == ExactGini(balances)
    IN  /\ gini.num * e.den = e.num * gini.den
        /\ 0 <= gini.num /\ gini.num <= gini.den

\* C9 as amended: the result is max(0, min(1, floor(10000 * 2S / (nT)) / 10000
\* - (n + 1) / n)): it is at most the exact coefficient and less than 0.0001
\* below it, lies in [0, 1], and is above 0.6 for [1, 1, 1, 97].
C9_GiniTruncatedFormula ==
  GiniCase =>
    LET e == ExactGini(balances)
        t == TruncatedGini(balances)
        gap == e.num * gini.den - gini.num * e.den
    IN  /\ gini.num * t.den = t.num * gini.den
        /\ gap >= 0
        /\ gap < e.den * Len(balances)
        /\ 0 <= gini.num /\ gini.num <= gini.den
        /\ balances = <<1, 1, 1, 97>> => 10 * gini.num > 6 * gini.den

C9_Witness ==
  /\ op = "calculateGiniCoefficient"
  /\ balances = <<97, 1, 1, 1>>
  /\ gini = [num |-> 28800, den |-> 40000]

\* C10: the result is exactly 0 for n >= 1 identical balances.
C10_GiniUniformIsZero ==
  ( /\ op = "calculateGiniCoefficient"
    /\ Len(balances) >= 1
    /\ \A i \in 1 .. Len(balances) : balances[i] = balances[1] )
  => gini.num = 0

C10_Witness ==
  /\ op = "calculateGiniCoefficient"
  /\ Len(balances) = 3
  /\ balances[1] = 100 /\ balances[2] = 100 /\ balances[3] = 100
  /\ gini.num = 0
\* the least k with parts * k >= n: the ceiling of n / parts
Ceiling(n, parts) ==
  CHOOSE k \in 0 .. n : parts * k >= n /\ (k = 0 \/ parts * (k - 1) < n)

Ranked == categories.whales \o categories.dolphins \o categories.shrimp

\* C11: for n holders categorizeHolders returns ceil(n / 100) whales,
\* ceil(n / 10) - ceil(n / 100) dolphins and n - ceil(n / 10) shrimp; the three
\* lists in this order hold every holder of the input once, with its balance,
\* in non-increasing order of balance; for n >= 1 there is a whale.
C11_BracketSizes ==
  (op = "categorizeHolders" /\ categories.returned) =>
    LET n == Len(holdersIn)
    IN  /\ Len(categories.whales) = Ceiling(n, 100)
        /\ Len(categories.dolphins) = Ceiling(n, 10) - Ceiling(n, 100)
        /\ Len(categories.shrimp) = n - Ceiling(n, 10)
        /\ n >= 1 => Len(categories.whales) >= 1
        /\ Len(Ranked) = n
        /\ { Ranked[i].address : i \in 1 .. n } = 1 .. n
        /\ \A i \in 1 .. n :
             Ranked[i].balance = holdersIn[Ranked[i].address].balance
        /\ \A i \in 1 .. n - 1 : Ranked[i].balance >= Ranked[i + 1].balance

C11_Witness ==
  /\ op = "categorizeHolders"
  /\ Len(holdersIn) = 101
  /\ holdersIn[1].balance < holdersIn[2].balance
  /\ Len(categories.whales) = 2
  /\ Len(categories.dolphins) = 9
  /\ Len(categories.shrimp) = 90

\* C12: on a non-empty holder list of positive total that a caller passes to
\* both operations, top1PercentShare sums as many balances as there are
\* whales, and top10PercentShare as many as there are whales and dolphins.
C12_SharedBracketSizes ==
  ( /\ op = "calculateConcentrationMetrics"
    /\ categories.returned
    /\ Len(holdersIn) >= 1
    /\ SumBalances(holdersIn) > 0 )
  => /\ concentration.top1Summed = Len(categories.whales)
     /\ concentration.top10Summed =
          Len(categories.whales) + Len(categories.dolphins)

C12_Witness ==
  /\ op = "calculateConcentrationMetrics"
  /\ categories.returned
  /\ Len(holdersIn) = 101
  /\ SumBalances(holdersIn) > 0
  /\ concentration.top1Summed = 2
  /\ concentration.top10Summed = 11

\* the sum of f[from .. to]
RECURSIVE SumOver(_, _, _)
SumOver(f, from, to) ==
  IF from > to THEN 0
  ELSE IF from = to THEN f[from]
  ELSE SumOver(f, from, (from + to) \div 2)
         + SumOver(f, (from + to) \div 2 + 1, to)

\* the sum of the k largest balances of the list the caller passed: with v
\* the k-th largest balance, every balance above v and v for the rest of k
LargestSum(k) ==
  LET n == Len(holdersIn)
      Above(x) == Cardinality({ i \in 1 .. n : holdersIn[i].balance > x })
      AtLeast(x) == Cardinality({ i \in 1 .. n : holdersIn[i].balance >= x })
      v == CHOOSE x \in { holdersIn[i].balance : i \in 1 .. n } :
             Above(x) < k /\ k <= AtLeast(x)
  IN  IF k = 0 THEN 0
      ELSE SumOver(SubSeq([i \in 1 .. n |->
                             IF holdersIn[i].balance > v
                             THEN holdersIn[i].balance ELSE 0], 1, n), 1, n)
             + (k - Above(v)) * v

ScannedCounts == { MintCount(responses[i]) : i \in 1 .. Len(responses) }

\* C14: getParticipationTrends scans every height of [startBlock, endBlock];
\* its minParticipants is the least claimant count among the heights that
\* have a claimant, and 0 when none has.
C14_MinOverClaimedHeights ==
  (op = "getParticipationTrends" /\ trend.returned) =>
    LET claimed == { c \in ScannedCounts : c > 0 }
    IN  /\ Len(responses) = Max(0, endBlock - startBlock + 1)
        /\ trend.minParticipants =
             IF claimed = {} THEN 0
             ELSE CHOOSE m \in claimed : \A c \in claimed : m <= c

C14_Witness ==
  /\ op = "getParticipationTrends"
  /\ trend.returned
  /\ ScannedCounts = {0, 2}
  /\ trend.minParticipants = 2

\* C15: no call of calculateCumulativeEmission takes the clamp branch.
C15_ClampNeverTaken ==
  op = "calculateCumulativeEmission" => ~cumulative.clamped

\* the sum of calculateBlockReward over the heights from .. to
RECURSIVE RewardSum(_, _)
RewardSum(from, to) ==
  IF from > to THEN 0 ELSE calculateBlockReward(from) + RewardSum(from + 1, to)

\* C16: calculatePremine() is (launch - genesis) * initialReward, which is the
\* sum of the block rewards of genesis .. launch - 1, all of them heights of
\* epoch 0.
C16_PremineIsRewardSum ==
  op = "calculatePremine" =>
    /\ premine = (LAUNCH_BLOCK - GENESIS_BLOCK) * INITIAL_REWARD
    /\ premine = RewardSum(GENESIS_BLOCK, LAUNCH_BLOCK - 1)
    /\ \A h \in GENESIS_BLOCK .. LAUNCH_BLOCK - 1 :
         (h - GENESIS_BLOCK) \div HALVING_INTERVAL = 0

C16_Witness ==
  /\ op = "calculatePremine"
  /\ pc = "done"
  /\ premine > 0

\* a caller has the rewards of two heights, the first not above the second
RewardPair ==
  op = "calculateBlockReward" /\ prevReward >= 0 /\ prevHeight <= height

\* C17 as stated: for all heights h1 <= h2 the reward of h2 is at most that of
\* h1, and a reward of 0 is followed by 0 only.
C17_RewardNonIncreasing ==
  RewardPair => /\ reward <= prevReward
                /\ prevReward = 0 => reward = 0

\* C17, from genesis on: for genesis <= h1 <= h2 the reward of h2 is at most
\* that of h1, and a reward of 0 is followed by 0 only.
C17_RewardNonIncreasingFromGenesis ==
  (RewardPair /\ prevHeight >= GENESIS_BLOCK) =>
    /\ reward <= prevReward
    /\ prevReward = 0 => reward = 0

C17_Witness ==
  /\ RewardPair
  /\ prevHeight = GENESIS_BLOCK + HALVING_INTERVAL - 1
  /\ height = GENESIS_BLOCK + HALVING_INTERVAL
  /\ reward < prevReward

\* the number of epochs whose reward is not 0
NonZeroEpochs == Cardinality({ e \in 0 .. 30 : HalvedReward(e) > 0 })

\* C18: getEmissionSchedule(maxEpochs) ends after at most one pass more than
\* there are epochs of non-zero reward; it returns the epochs 0, 1, 2, ... up
\* to the first of reward 0 and at most maxEpochs of them, each with its
\* reward, which is above 0.
C18_ScheduleStopsAtZeroReward ==
  op = "getEmissionSchedule" =>
    LET entries == schedule.entries
    IN  /\ Len(entries) <= maxEpochs
        /\ Len(entries) = Min(maxEpochs, NonZeroEpochs)
        /\ schedule.passes <= NonZeroEpochs + 1
        /\ \A i \in 1 .. Len(entries) :
             /\ entries[i].epoch = i - 1
             /\ entries[i].blockReward = HalvedReward(i - 1)
             /\ entries[i].blockReward > 0

C18_Witness ==
  /\ op = "getEmissionSchedule"
  /\ maxEpochs = 1000 * DEFAULT_MAX_EPOCHS
  /\ Len(schedule.entries) = NonZeroEpochs
  /\ schedule.entries[Len(schedule.entries)].blockReward = 1

\* C19: no call of calculateBlockReward or calculateCumulativeEmission with a
\* height below 0 returns a value.
C19_NegativeHeightRejected ==
  ~ ( /\ op \in {"calculateBlockReward", "calculateCumulativeEmission"}
      /\ height < 0
      /\ pc = "done" )

\* C20: when categorizeHolders or calculateConcentrationMetrics has returned,
\* the caller's list is as it was passed: the same records in the same order,
\* each with its address, balance and percentage.
C20_InputsUnchanged ==
  (op \in {"categorizeHolders", "calculateConcentrationMetrics"} /\ pc = "done")
    => holders = holdersIn

\* C23: from genesis on, getNextHalvingBlock(h) is the least start of an epoch
\* above h, getBlocksUntilHalving(h) is in 1 .. halvingInterval, the reward is
\* the same at every height of h .. nextHalving - 1 and is halved, rounded
\* down, at nextHalving.
C23_NextHalving ==
  /\ (op = "getNextHalvingBlock" /\ height >= GENESIS_BLOCK) =>
       /\ nextHalving > height
       /\ (nextHalving - GENESIS_BLOCK) % HALVING_INTERVAL = 0
       /\ \A g \in height + 1 .. nextHalving - 1 :
            (g - GENESIS_BLOCK) % HALVING_INTERVAL # 0
       /\ \A g \in height .. nextHalving - 1 :
            calculateBlockReward(g) = calculateBlockReward(height)
       /\ calculateBlockReward(nextHalving) = calculateBlockReward(height) \div 2
  /\ (op = "getBlocksUntilHalving" /\ height >= GENESIS_BLOCK) =>
       /\ 1 <= blocksUntil /\ blocksUntil <= HALVING_INTERVAL
       /\ (height + blocksUntil - GENESIS_BLOCK) % HALVING_INTERVAL = 0

C23_Witness ==
  /\ op = "getNextHalvingBlock"
  /\ height = GENESIS_BLOCK + HALVING_INTERVAL - 1
  /\ nextHalving = height + 1
  /\ calculateBlockReward(nextHalving) < calculateBlockReward(height)

\* C24: getHalvingEvents lists the epochs 0, 1, 2, ... at the heights genesis
\* + epoch * halvingInterval; each event has newReward = the block reward of
\* its height and previousReward = the block reward of the height before, and
\* is completed exactly when the current height has reached its height.
C24_HalvingEvents ==
  op = "getHalvingEvents" =>
    \A i \in 1 .. Len(events) :
      LET e == events[i]
      IN  /\ e.epoch = i - 1
          /\ e.blockHeight = GENESIS_BLOCK + e.epoch * HALVING_INTERVAL
          /\ e.newReward = calculateBlockReward(e.blockHeight)
          /\ e.previousReward = calculateBlockReward(e.blockHeight - 1)
          /\ e.isCompleted <=> height >= e.blockHeight
          /\ (e.isCompleted /\ i > 1) => events[i - 1].isCompleted

\* C26: every entry of getEmissionSchedule has cumulativeEmission equal to
\* calculateCumulativeEmission of its endBlock, at most maxSupply and not
\* below the entry before.
C26_ScheduleCumulative ==
  op = "getEmissionSchedule" =>
    \A i \in 1 .. Len(schedule.entries) :
      LET e == schedule.entries[i]
      IN  /\ e.cumulativeEmission = calculateCumulativeEmission(e.endBlock).total
          /\ e.cumulativeEmission <= MAX_SUPPLY
          /\ i > 1 => schedule.entries[i - 1].cumulativeEmission
                        <= e.cumulativeEmission

\* C21: on an empty input every DistributionMetrics operation returns its
\* neutral result: Gini 0; no whales, dolphins or shrimp, totalSupply 0 and
\* holderCount 0; both shares and nakamotoCoefficient 0; moving average 0.
C21_EmptyInputDefaults ==
  /\ (op = "calculateGiniCoefficient" /\ balances = <<>>) =>
       pc = "done" /\ gini.num = 0 /\ gini.den > 0
  /\ (op = "categorizeHolders" /\ holdersIn = <<>>) =>
       /\ pc = "done"
       /\ categories.whales = <<>>
       /\ categories.dolphins = <<>>
       /\ categories.shrimp = <<>>
       /\ categories.totalSupply = 0
       /\ categories.holderCount = 0
  /\ (op = "calculateConcentrationMetrics" /\ holdersIn = <<>>) =>
       /\ pc = "done"
       /\ concentration.top1PercentShare = 0
       /\ concentration.top10PercentShare = 0
       /\ concentration.nakamotoCoefficient = 0
  /\ (op = "calculateMovingAverageGini" /\ giniHistory = <<>>) =>
       pc = "done" /\ movingAverage.num = 0 /\ movingAverage.den > 0

C21_Witness ==
  /\ op = "calculateMovingAverageGini"
  /\ giniHistory = <<>>
  /\ windowSize = DEFAULT_WINDOW_SIZE
  /\ movingAverage.num = 0

\* the least-squares line through the points (i - 1, giniHistory[i]), in the
\* form mean(y) + slope * (x - mean(x)), slope = Sxy / Sxx with the deviations
\* from the means taken n-fold; its value at x is FitNum(x) / FitDen
FitSxy ==
  LET n == Len(giniHistory)
      sumX == (n * (n - 1)) \div 2
      sumY == SumSeq(giniHistory)
      D(i) == (n * (i - 1) - sumX) * (n * giniHistory[i] - sumY)
  IN  SumOver([i \in 1 .. n |-> D(i)], 1, n)
FitSxx ==
  LET n == Len(giniHistory)
      sumX == (n * (n - 1)) \div 2
      D(i) == (n * (i - 1) - sumX) * (n * (i - 1) - sumX)
  IN  SumOver([i \in 1 .. n |-> D(i)], 1, n)
FitDen == Len(giniHistory) * FitSxx
FitNum(x) ==
  LET n == Len(giniHistory)
      sumX == (n * (n - 1)) \div 2
  IN  SumSeq(giniHistory) * FitSxx + FitSxy * (n * x - sumX)

\* predictedGini is the value of the line at n + periods - 1, kept in [0, 1]
PredictedOnLine ==
  LET x == Len(giniHistory) + periods - 1
      line == Max(0, Min(GiniScale * FitDen, FitNum(x)))
  IN  prediction.num * FitDen = line * prediction.den

TrendCase == op = "predictDistributionTrend" /\ Len(giniHistory) >= 2

\* C22 as stated: improving when the slope is below -0.001, worsening when it
\* is above 0.001, stable otherwise.
C22_TrendBeyondEpsilon ==
  TrendCase =>
    /\ PredictedOnLine
    /\ prediction.trend =
         IF FitSxy * 1000 < -(GiniScale * FitSxx) THEN "improving"
         ELSE IF FitSxy * 1000 > GiniScale * FitSxx THEN "worsening"
         ELSE "stable"

\* C22, with the bounds: stable when the slope is strictly between -0.001 and
\* 0.001, improving when it is -0.001 or less, worsening when it is 0.001 or
\* more.
C22_TrendFromEpsilon ==
  TrendCase =>
    /\ PredictedOnLine
    /\ prediction.trend =
         IF FitSxy * 1000 <= -(GiniScale * FitSxx) THEN "improving"
         ELSE IF FitSxy * 1000 >= GiniScale * FitSxx THEN "worsening"
         ELSE "stable"

C22_Witness ==
  /\ TrendCase
  /\ giniHistory = <<0, 1>>
  /\ periods = DEFAULT_PERIODS
  /\ prediction.trend = "worsening"
  /\ prediction.num = 6 * prediction.den

\* C30: for a history of one value v the result is stable with predictedGini
\* v; for the empty history it is stable with predictedGini 0.5.
C30_SingleValuePredicted ==
  (op = "predictDistributionTrend" /\ Len(giniHistory) < 2) =>
    /\ prediction.trend = "stable"
    /\ Len(giniHistory) = 1 => prediction.num = giniHistory[1] * prediction.den
    /\ Len(giniHistory) = 0 => 2 * prediction.num = GiniScale * prediction.den

\* how often a holder of this address is in the list
Occurrences(list, address) ==
  Cardinality({ i \in 1 .. Len(list) : list[i].address = address })

\* C25: whales, dolphins and shrimp partition the input: each input holder is
\* in exactly one of them, once; their lengths add up to holderCount, the
\* length of the input; no dolphin has more than a whale and no shrimp more
\* than a dolphin or a whale; totalSupply is the sum of the input balances.
C25_CategoriesPartition ==
  (op = "categorizeHolders" /\ categories.returned) =>
    LET n == Len(holdersIn)
        w == categories.whales
        d == categories.dolphins
        sh == categories.shrimp
    IN  /\ Len(w) + Len(d) + Len(sh) = categories.holderCount
        /\ categories.holderCount = n
        /\ \A i \in 1 .. n :
             Occurrences(w, i) + Occurrences(d, i) + Occurrences(sh, i) = 1
        /\ \A i \in 1 .. Len(w), j \in 1 .. Len(d) : w[i].balance >= d[j].balance
        /\ \A i \in 1 .. Len(d), j \in 1 .. Len(sh) : d[i].balance >= sh[j].balance
        /\ \A i \in 1 .. Len(w), j \in 1 .. Len(sh) : w[i].balance >= sh[j].balance
        /\ categories.totalSupply =
             SumOver([i \in 1 .. n |-> holdersIn[i].balance], 1, n)

C25_Witness ==
  /\ op = "categorizeHolders"
  /\ Len(holdersIn) = 12
  /\ Len(categories.whales) = 1
  /\ Len(categories.dolphins) = 1
  /\ Len(categories.shrimp) = 10
  /\ categories.whales[1].balance > categories.dolphins[1].balance
  /\ categories.totalSupply > 0

\* the element of the list at i is new: not in the set before the call and
\* not at an earlier place of the list
NewAt(i) ==
  /\ addresses[i] \notin historicalBefore
  /\ \A j \in 1 .. i - 1 : addresses[j] # addresses[i]

\* the elements of the list from i on that are new (or, that are not), in the
\* order of the list
RECURSIVE PickFrom(_, _)
PickFrom(i, new) ==
  IF i > Len(addresses) THEN <<>>
  ELSE (IF NewAt(i) = new THEN <<addresses[i]>> ELSE <<>>)
         \o PickFrom(i + 1, new)

\* C27: analyzeParticipantHistory puts every element of the list in one of
\* its two lists: in firstTimeMinters when it is new, else in veteranMinters;
\* after the call the set holds every address of the list, and over the calls
\* that share a set no address is reported first-time twice.
C27_FirstTimeOnce ==
  op = "analyzeParticipantHistory" =>
    /\ Len(analysis.firstTimeMinters) + Len(analysis.veteranMinters)
         = Len(addresses)
    /\ analysis.firstTimeMinters = PickFrom(1, TRUE)
    /\ analysis.veteranMinters = PickFrom(1, FALSE)
    /\ { addresses[i] : i \in 1 .. Len(addresses) } \subseteq historicalParticipants
    /\ historicalBefore \subseteq historicalParticipants
    /\ \A i, j \in 1 .. Len(reportedFirst) :
         reportedFirst[i] = reportedFirst[j] => i = j

C27_Witness ==
  /\ op = "analyzeParticipantHistory"
  /\ calls = 2
  /\ addresses = <<"a", "b", "b">>
  /\ historicalBefore = {"a"}
  /\ analysis.firstTimeMinters = <<"b">>
  /\ analysis.veteranMinters = <<"a", "b">>
  /\ reportedFirst = <<"a", "b">>

\* getParticipationTrends has returned the statistics of a range with at
\* least one height
TrendOfRange ==
  op = "getParticipationTrends" /\ trend.returned /\ startBlock <= endBlock

\* the claimant counts of all heights of the range, added up
RECURSIVE ScannedTotal(_)
ScannedTotal(i) ==
  IF i > Len(responses) THEN 0
  ELSE MintCount(responses[i]) + ScannedTotal(i + 1)

\* C29 as stated: minParticipants <= averageParticipants <= peakParticipants
\* for every non-empty range, the average being the total claimant count
\* divided by the number of heights.
C29_MinAverageMax ==
  TrendOfRange =>
    /\ trend.averageNum = ScannedTotal(1)
    /\ trend.averageDen = endBlock - startBlock + 1
    /\ trend.minParticipants * trend.averageDen <= trend.averageNum
    /\ trend.averageNum <= trend.peakParticipants * trend.averageDen

\* C29, with the heights without claimants set apart: averageParticipants <=
\* peakParticipants and minParticipants <= peakParticipants for every
\* non-empty range, and minParticipants <= averageParticipants when every
\* height of the range has a claimant.
C29_AverageBelowPeak ==
  TrendOfRange =>
    /\ trend.averageNum = ScannedTotal(1)
    /\ trend.averageDen = endBlock - startBlock + 1
    /\ trend.averageNum <= trend.peakParticipants * trend.averageDen
    /\ trend.minParticipants <= trend.peakParticipants
    /\ (0 \notin ScannedCounts) =>
         trend.minParticipants * trend.averageDen <= trend.averageNum

C29_Witness ==
  /\ TrendOfRange
  /\ ScannedCounts = {1, 2}
  /\ trend.minParticipants = 1
  /\ trend.peakParticipants = 2
  /\ 2 * trend.averageNum = 3 * trend.averageDen

\* C28: with overlapping polls, lastBlockHeight never decreases, the heights
\* of the new_block messages are strictly increasing, and a poll whose
\* getblockchaininfo failed announces nothing.
C28_BlocksAnnouncedOnce ==
  /\ [](\A i \in 1 .. Len(newBlocks) - 1 : newBlocks[i] < newBlocks[i + 1])
  /\ [][lastBlockHeight' >= lastBlockHeight]_vars
  /\ [][(pendingInfo' < pendingInfo /\ lastAnswer'.kind = "failed")
          => newBlocks' = newBlocks /\ lastBlockHeight' = lastBlockHeight]_vars

C28_Witness ==
  /\ newBlocks = <<2, 3>>
  /\ lastBlockHeight = 3
  /\ lastAnswer = [kind |-> "info", blocks |-> 1]
  /\ polls = MaxPolls
  /\ pendingInfo = 0
====
